---------------------------- MODULE Spec2Model ----------------------------
(***************************************************************************)
(* Constant-subgraph detection and constant folding of the analyser        *)
(* (core/src/analyser/constants.rs).                                       *)
(*                                                                         *)
(* The state is the Analyser's graph: the node sequence, the edge          *)
(* sequence and the two adjacency indexes prev_edges / next_edges, plus    *)
(* the position of a running propagate_constants call.  Ids are 0-based    *)
(* as in the source; TLA+ sequences are 1-based, so the element with id k  *)
(* sits at position k + 1.  An Option is a sequence of length 0 or 1.      *)
(*                                                                         *)
(* Specifications: Spec runs propagate_constants on well-formed graphs,    *)
(* SpecRaw on graphs that lost an adjacency or input entry, SpecSlots on   *)
(* graphs whose nodes have several output slots, and SpecDetect follows    *)
(* one connected_components call step by step.                             *)
(***************************************************************************)
EXTENDS Integers, Sequences, FiniteSets, TLC

\* Bounds of the model.
MaxNodes == 3
MaxEdges == 3
MaxFolds == 2
\* edges of the graphs handed over in an inconsistent state (SpecRaw)
MaxRawEdges == 2
\* nodes and highest output slot of the graphs with several outlets per
\* node (SpecSlots)
MaxSlotNodes == 2
MaxSlot == 1

VARIABLES
    nodes,            \* analyser.nodes : Seq of Node
    edges,            \* analyser.edges : Seq of Edge
    prev_edges,       \* analyser.prev_edges : incoming edge ids per node
    next_edges,       \* analyser.next_edges : outgoing edge ids per node
    pc,               \* "idle" | "rewiring" | "panicked"
    components,       \* result of connected_components of the running call
    pending,          \* boundary edges the running call has still to process
    const_int_nodes,  \* the running call's HashMap: i32 content -> node id
    pre,              \* the graph as it was when the running/last call began
    result,           \* outcome of the last call that returned or unwound:
                      \* "none" | "ok" | "err" (reset_plan failed) | "panic"
    folds,            \* number of propagate_constants calls begun
    plan_resets,      \* number of reset_plan requests made
    plan_reset_ok,    \* what the last reset_plan request returned:
                      \* "none" | "ok" | "err"
    walk              \* a connected_components call followed step by step:
                      \* its position (phase, node of the outer for loop)
                      \* and its locals st

vars == <<nodes, edges, prev_edges, next_edges, pc, components, pending,
          const_int_nodes, pre, result, folds, plan_resets, plan_reset_ok, walk>>

\* what a connected_components call leaves alone
fold_vars == <<nodes, edges, prev_edges, next_edges, pc, components, pending,
               const_int_nodes, pre, result, folds, plan_resets, plan_reset_ok>>

-----------------------------------------------------------------------------
\* Data

None == <<>>
Some(x) == <<x>>

OutletIdNew(node, slot) == [node |-> node, slot |-> slot]

I32 == "i32"
F32 == "f32"
Tensors == { [dt |-> I32, v |-> 7], [dt |-> I32, v |-> 9], [dt |-> F32, v |-> 7] }
Facts == {None} \cup { Some(t) : t \in Tensors }

ElementNode(n) == [tag |-> "Node", id |-> n]
ElementEdge(e) == [tag |-> "Edge", id |-> e]

Analyser == [nodes |-> nodes, edges |-> edges,
             prev_edges |-> prev_edges, next_edges |-> next_edges]

\* fact.value.is_concrete()
is_concrete(fact) == fact # None

\* tensor.take_i32s(): the i32 content when the tensor is an i32 tensor
\* (faulty variants: every datatype taken for i32; no datatype taken for i32)
take_i32s_any(tensor) == Some(tensor.v)
take_i32s_never(tensor) == None
take_i32s(tensor) == IF tensor.dt = I32 THEN Some(tensor.v) ELSE None

\* Iterator::position over a set of matching 1-based indexes: the first one
First(hits) ==
    IF hits = {} THEN None ELSE Some(CHOOSE k \in hits : \A h \in hits : k <= h)

\* Vec::remove(position)
RemoveAt(seq, p) == [k \in 1..(Len(seq) - 1) |-> IF k < p THEN seq[k] ELSE seq[k + 1]]

-----------------------------------------------------------------------------
\* connected_components (constants.rs 30-108)

\* is_edge_const: one flag per edge
is_edge_const(an) == [k \in 1..Len(an.edges) |-> is_concrete(an.edges[k].fact)]

\* the closure mapped over next_edges: a node is constant iff it has an
\* outgoing edge and all its outgoing edges are constant
\* (faulty variant: without next.len() > 0)
node_const_vacuous(next, ec) == \A j \in 1..Len(next) : ec[next[j] + 1]
node_const(next, ec) == Len(next) > 0 /\ \A j \in 1..Len(next) : ec[next[j] + 1]

\* is_node_const: one flag per bucket of next_edges
is_node_const(an, ec) == [k \in 1..Len(an.next_edges) |-> node_const(an.next_edges[k], ec)]

\* the context the traversal reads: the graph and the two flag vectors
Context(an) ==
    LET ec == is_edge_const(an)
    IN [an |-> an, is_edge_const |-> ec, is_node_const |-> is_node_const(an, ec)]

\* the traversal's mutable locals
InitialColoring(an) ==
    [components      |-> <<>>,
     is_node_colored |-> [k \in 1..Len(an.nodes) |-> FALSE],
     is_edge_colored |-> [k \in 1..Len(an.edges) |-> FALSE],
     stack           |-> <<>>,
     component       |-> [elements |-> <<>>, outputs |-> <<>>],
     panic           |-> FALSE]

Panic(st) == [st EXCEPT !.panic = TRUE]

\* (faulty variant: the consuming node in both directions)
other_forward(an, from, edge) == an.edges[edge + 1].to_node

\* the $other closure of the two process_edges! uses
other(an, from, edge) ==
    IF from = "prev_edges"
    THEN (IF an.edges[edge + 1].from = None THEN None
          ELSE Some(an.edges[edge + 1].from[1].node))
    ELSE an.edges[edge + 1].to_node

\* the guard of the loop body: edges that are skipped
\* (faulty variant: without the is_edge_colored test)
skip_edge_uncolored(cx, st, edge) == ~cx.is_edge_const[edge + 1]
skip_edge(cx, st, edge) ==
    ~cx.is_edge_const[edge + 1] \/ st.is_edge_colored[edge + 1]

\* the test that makes an edge an output of the component
\* (faulty variant: without the is_node_const test)
is_output_always(cx, target) == TRUE
is_output(cx, target) == ~cx.is_node_const[target + 1]

\* one iteration of the for loop of process_edges!
visit_edge(cx, from, st, edge) ==
    IF skip_edge(cx, st, edge) THEN st
    ELSE
    LET st1 == [st EXCEPT !.is_edge_colored[edge + 1] = TRUE,
                          !.component.elements = Append(@, ElementEdge(edge))]
        target == other(cx.an, from, edge)
    IN IF target = None THEN st1
       ELSE IF target[1] >= Len(cx.is_node_const) THEN Panic(st1)
       ELSE IF is_output(cx, target[1])
            THEN [st1 EXCEPT !.component.outputs = Append(@, edge)]
            ELSE [st1 EXCEPT !.stack = Append(@, target[1])]

RECURSIVE process_edges(_, _, _, _, _)
process_edges(cx, from, st, node, j) ==
    IF st.panic \/ j > Len(cx.an[from][node + 1]) THEN st
    ELSE process_edges(cx, from, visit_edge(cx, from, st, cx.an[from][node + 1][j]), node, j + 1)

\* line 82: popped nodes that are skipped
\* (faulty variant: without the is_node_colored test)
skip_node_uncolored(cx, st, node) == ~cx.is_node_const[node + 1]
skip_node(cx, st, node) ==
    ~cx.is_node_const[node + 1] \/ st.is_node_colored[node + 1]

\* lines 81-100: one iteration of the while loop, the stack not being empty
pop_step(cx, st) ==
    LET node == st.stack[Len(st.stack)]
        st0  == [st EXCEPT !.stack = SubSeq(@, 1, Len(@) - 1)]
    IN IF node >= Len(cx.is_node_const) THEN Panic(st0)
       ELSE IF cx.is_node_const[node + 1] /\ node >= Len(st0.is_node_colored) THEN Panic(st0)
       ELSE IF skip_node(cx, st0, node) THEN st0
       ELSE
       LET st1 == [st0 EXCEPT !.is_node_colored[node + 1] = TRUE,
                              !.component.elements = Append(@, ElementNode(node))]
           st2 == IF node >= Len(cx.an.prev_edges) THEN Panic(st1)
                  ELSE process_edges(cx, "prev_edges", st1, node, 1)
       IN process_edges(cx, "next_edges", st2, node, 1)

\* while let Some(node) = stack.pop() { ... }
RECURSIVE while_stack(_, _)
while_stack(cx, st) ==
    IF st.panic \/ st.stack = <<>> THEN st
    ELSE while_stack(cx, pop_step(cx, st))

\* lines 74-79: a fresh component, the node pushed on the stack
start_component(st, node) ==
    [st EXCEPT !.component = [elements |-> <<>>, outputs |-> <<>>],
               !.stack = Append(@, node)]

\* line 103: components.push(component); the component is moved out
emit_component(st) ==
    [st EXCEPT !.components = Append(@, st.component),
               !.component = [elements |-> <<>>, outputs |-> <<>>]]

\* for (node, &is_const) in is_node_const.iter().enumerate() { ... }
RECURSIVE for_nodes(_, _, _)
for_nodes(cx, st, node) ==
    IF st.panic \/ node >= Len(cx.is_node_const) THEN st
    ELSE IF ~cx.is_node_const[node + 1] THEN for_nodes(cx, st, node + 1)
    ELSE IF node >= Len(st.is_node_colored) THEN Panic(st)
    ELSE IF st.is_node_colored[node + 1] THEN for_nodes(cx, st, node + 1)
    ELSE
    LET st1 == while_stack(cx, start_component(st, node))
    IN IF st1.panic THEN st1
       ELSE for_nodes(cx, emit_component(st1), node + 1)

\* the traversal's final locals; .panic tells an index out of bounds,
\* otherwise .components is the Ok value
connected_components(an) == for_nodes(Context(an), InitialColoring(an), 0)

-----------------------------------------------------------------------------
\* propagate_constants (constants.rs 154-209)

\* format!("generated_{}", node_id)
generated(node_id) == <<"generated", node_id>>

build_const_node(id, name, tensor) ==
    [id |-> id, name |-> name, op_name |-> "Const", inputs |-> <<>>, op |-> Some(tensor)]

\* component-then-edge order of the two nested for loops
RECURSIVE AllOutputs(_)
AllOutputs(comps) ==
    IF comps = <<>> THEN <<>> ELSE comps[1].outputs \o AllOutputs(Tail(comps))

\* const_int_nodes is a set of [key, id] pairs with at most one pair per key
CacheHas(cache, key) == \E c \in cache : c.key = key
\* (faulty variant: some cached node, whatever its key)
CacheGet_any(cache, key) == (CHOOSE c \in cache : TRUE).id
CacheGet(cache, key) == (CHOOSE c \in cache : c.key = key).id

\* result of the body of the inner for loop that ended in a failed unwrap or
\* an index out of bounds: the graph keeps what was written before it
Unwound(an, cache) == [an |-> an, cache |-> cache, panic |-> TRUE]

\* (faulty variant: the id is taken as if the node had been pushed already)
resolve_const_node_late(an, cache, tensor) ==
    LET key     == take_i32s(tensor)
        node_id == Len(an.nodes) + 1
    IN IF key # None /\ CacheHas(cache, key[1])
       THEN [an |-> an, cache |-> cache, const_node_id |-> CacheGet(cache, key[1])]
       ELSE [an    |-> [an EXCEPT !.nodes = Append(@, build_const_node(node_id, generated(node_id), tensor))],
             cache |-> IF key # None THEN cache \cup {[key |-> key[1], id |-> node_id]} ELSE cache,
             const_node_id |-> node_id]

\* lines 164-178: the node the edge will read from, appended unless the
\* i32 cache already holds one for this content
resolve_const_node(an, cache, tensor) ==
    LET key     == take_i32s(tensor)
        node_id == Len(an.nodes)
    IN IF key # None /\ CacheHas(cache, key[1])
       THEN [an |-> an, cache |-> cache, const_node_id |-> CacheGet(cache, key[1])]
       ELSE [an    |-> [an EXCEPT !.nodes = Append(@, build_const_node(node_id, generated(node_id), tensor))],
             cache |-> IF key # None THEN cache \cup {[key |-> key[1], id |-> node_id]} ELSE cache,
             const_node_id |-> node_id]

\* line 185: successors.iter().position(|&i| i == edge.id)
position_of_edge(successors, id) ==
    First({ k \in 1..Len(successors) : successors[k] = id })

\* lines 192-194: predecessors.iter().position(|outlet| outlet.node == old_node_id)
position_of_source(predecessors, old_node_id) ==
    First({ k \in 1..Len(predecessors) : predecessors[k].node = old_node_id })

\* lines 184-186: successors.remove(position)
\* (faulty variant: the bucket is cleared)
detach_all(successors, position) == <<>>
detach(successors, position) == RemoveAt(successors, position)

\* (faulty variant: the consumer's input list is left as it was)
retarget_keep(predecessors, position, old_node_id, const_node_id) == predecessors

\* (faulty variant: every input naming the old node is replaced)
retarget_all(predecessors, position, old_node_id, const_node_id) ==
    [k \in 1..Len(predecessors) |->
        IF predecessors[k].node = old_node_id THEN OutletIdNew(const_node_id, 0)
        ELSE predecessors[k]]

\* lines 191-196: predecessors[position] = OutletId::new(const_node_id, 0)
retarget(predecessors, position, old_node_id, const_node_id) ==
    [predecessors EXCEPT ![position] = OutletIdNew(const_node_id, 0)]

\* lines 162-202: the body of the inner for loop for boundary edge i
rewire(an, cache, i) ==
    IF an.edges[i + 1].fact = None THEN Unwound(an, cache)
    ELSE
    LET tensor == an.edges[i + 1].fact[1]
        r      == resolve_const_node(an, cache, tensor)
        an1    == r.an
        edge   == an1.edges[i + 1]
    IN IF edge.from = None THEN Unwound(an1, r.cache)
       ELSE
       LET old_node_id == edge.from[1].node
       IN IF old_node_id >= Len(an1.next_edges) THEN Unwound(an1, r.cache)
          ELSE
          LET successors == an1.next_edges[old_node_id + 1]
              position   == position_of_edge(successors, edge.id)
          IN IF position = None THEN Unwound(an1, r.cache)
             ELSE
             LET an2 == [an1 EXCEPT !.next_edges[old_node_id + 1] = detach(successors, position[1])]
             IN IF edge.to_node = None \/ (edge.to_node # None /\ edge.to_node[1] >= Len(an2.nodes))
                THEN Unwound(an2, r.cache)
                ELSE
                LET to           == edge.to_node[1]
                    predecessors == an2.nodes[to + 1].inputs
                    position2    == position_of_source(predecessors, old_node_id)
                IN IF position2 = None THEN Unwound(an2, r.cache)
                   ELSE
                   [an |-> [an2 EXCEPT
                               !.nodes[to + 1].inputs = retarget(predecessors, position2[1], old_node_id, r.const_node_id),
                               !.edges[i + 1].from = Some(OutletIdNew(r.const_node_id, 0)),
                               !.prev_edges = Append(@, <<>>),
                               !.next_edges = Append(@, <<edge.id>>)],
                    cache |-> r.cache,
                    panic |-> FALSE]

\* lines 155-158: detect the components, start with an empty cache
propagate_constants_begin ==
    /\ pc = "idle"
    /\ folds < MaxFolds
    /\ folds' = folds + 1
    /\ pre' = Analyser
    /\ const_int_nodes' = {}
    /\ LET d == connected_components(Analyser)
       IN IF d.panic
          THEN /\ pc' = "panicked"
               /\ result' = "panic"
               /\ components' = <<>>
               /\ pending' = <<>>
          ELSE /\ pc' = "rewiring"
               /\ result' = result
               /\ components' = d.components
               /\ pending' = AllOutputs(d.components)
    /\ UNCHANGED <<nodes, edges, prev_edges, next_edges, plan_resets, plan_reset_ok, walk>>

\* lines 160-203: one boundary edge
propagate_constants_edge ==
    /\ pc = "rewiring"
    /\ pending # <<>>
    /\ LET r == rewire(Analyser, const_int_nodes, Head(pending))
       IN /\ nodes' = r.an.nodes
          /\ edges' = r.an.edges
          /\ prev_edges' = r.an.prev_edges
          /\ next_edges' = r.an.next_edges
          /\ const_int_nodes' = r.cache
          /\ pc' = IF r.panic THEN "panicked" ELSE "rewiring"
          /\ result' = IF r.panic THEN "panic" ELSE result
    /\ pending' = Tail(pending)
    /\ UNCHANGED <<components, pre, folds, plan_resets, plan_reset_ok, walk>>

\* (faulty variant: reset_plan requested inside the loop over the edges)
propagate_constants_end_in_loop ==
    /\ pc = "rewiring"
    /\ plan_resets' = plan_resets + 1
    /\ \E reset_ok \in BOOLEAN :
          /\ plan_reset_ok' = IF reset_ok THEN "ok" ELSE "err"
          /\ result' = IF pending # <<>> /\ reset_ok THEN result
                       ELSE IF reset_ok THEN "ok" ELSE "err"
    /\ pc' = IF pending # <<>> THEN "rewiring" ELSE "idle"
    /\ UNCHANGED <<nodes, edges, prev_edges, next_edges, components, pending,
                   const_int_nodes, pre, folds, walk>>

\* lines 206-208: analyser.reset_plan()?; Ok(())
propagate_constants_end ==
    /\ pc = "rewiring"
    /\ pending = <<>>
    /\ plan_resets' = plan_resets + 1
    /\ \E reset_ok \in BOOLEAN :
          /\ plan_reset_ok' = IF reset_ok THEN "ok" ELSE "err"
          /\ result' = IF reset_ok THEN "ok" ELSE "err"
    /\ pc' = "idle"
    /\ UNCHANGED <<nodes, edges, prev_edges, next_edges, components, pending,
                   const_int_nodes, pre, folds, walk>>

-----------------------------------------------------------------------------
\* Graphs the analyser is built on

NodeIds(n) == 0..(n - 1)

\* edges are numbered destination by destination, the edges without a
\* destination (graph outputs) last
ToRank(to_node, n) == IF to_node = None THEN n ELSE to_node[1]

EdgeSeqs(n, m) ==
    { es \in [1..m -> [from : {Some(OutletIdNew(k, 0)) : k \in NodeIds(n)},
                       to_node : {None} \cup {Some(k) : k \in NodeIds(n)},
                       fact : Facts]] :
        \A k \in 1..(m - 1) : ToRank(es[k].to_node, n) <= ToRank(es[k + 1].to_node, n) }

Ids(m) == [k \in 1..m |-> k - 1]

\* the graph with n nodes and the edges es: one bucket per node, every edge
\* in the buckets of its two endpoints, one input per incoming edge
Build(n, es) ==
    LET E    == [k \in 1..Len(es) |-> [id |-> k - 1, from |-> es[k].from,
                                       to_node |-> es[k].to_node, fact |-> es[k].fact]]
        prev == [k \in 1..n |-> SelectSeq(Ids(Len(es)), LAMBDA e : E[e + 1].to_node = Some(k - 1))]
        next == [k \in 1..n |-> SelectSeq(Ids(Len(es)), LAMBDA e : E[e + 1].from[1].node = k - 1)]
    IN [nodes |-> [k \in 1..n |-> [id |-> k - 1, name |-> <<"node", k - 1>>, op_name |-> "Op",
                                   inputs |-> [j \in 1..Len(prev[k]) |-> E[prev[k][j] + 1].from[1]],
                                   op |-> None]],
        edges |-> E, prev_edges |-> prev, next_edges |-> next]

InitOn(g) ==
    /\ nodes = g.nodes
    /\ edges = g.edges
    /\ prev_edges = g.prev_edges
    /\ next_edges = g.next_edges
    /\ pc = "idle"
    /\ components = <<>>
    /\ pending = <<>>
    /\ const_int_nodes = {}
    /\ pre = g
    /\ result = "none"
    /\ folds = 0
    /\ plan_resets = 0
    /\ plan_reset_ok = "none"
    /\ walk = [phase |-> "none", node |-> 0, st |-> InitialColoring(g)]

Init ==
    \E n \in 1..MaxNodes, m \in 0..MaxEdges :
        \E es \in EdgeSeqs(n, m) : InitOn(Build(n, es))

\* Inconsistent caller state (the invariant violations fold guards against
\* with unwrap): a graph built as above in which one entry was lost, either
\* an input of a node or an edge id of an outgoing bucket.
Damaged(g) ==
    { [g EXCEPT !.nodes[k].inputs = RemoveAt(@, j)] :
          <<k, j>> \in { kj \in (1..Len(g.nodes)) \X (1..Len(g.edges)) :
                           kj[2] <= Len(g.nodes[kj[1]].inputs) } }
    \cup
    { [g EXCEPT !.next_edges[k] = RemoveAt(@, j)] :
          <<k, j>> \in { kj \in (1..Len(g.nodes)) \X (1..Len(g.edges)) :
                           kj[2] <= Len(g.next_edges[kj[1]]) } }

InitRaw ==
    \E n \in 1..MaxNodes, m \in 1..MaxRawEdges :
        \E es \in EdgeSeqs(n, m) :
            \E g \in Damaged(Build(n, es)) : InitOn(g)

\* Graphs whose nodes have several output slots.  A Fact describes the value
\* of the outlet its edge leaves, so the edges of one outlet agree on it.
EdgeSeqsSlots(n, m) ==
    { es \in [1..m -> [from : {Some(OutletIdNew(k, s)) : k \in NodeIds(n), s \in 0..MaxSlot},
                       to_node : {None} \cup {Some(k) : k \in NodeIds(n)},
                       fact : Facts]] :
        /\ \A k \in 1..(m - 1) : ToRank(es[k].to_node, n) <= ToRank(es[k + 1].to_node, n)
        /\ \A i \in 1..m, j \in 1..m : es[i].from = es[j].from => es[i].fact = es[j].fact }

InitSlots ==
    \E n \in 1..MaxSlotNodes, m \in 0..MaxEdges :
        \E es \in EdgeSeqsSlots(n, m) : InitOn(Build(n, es))

\* connected_components followed step by step -------------------------------

\* lines 30-46: the call; the flag vectors are built, the locals are fresh
detect_call ==
    /\ walk.phase = "none"
    /\ walk' = [phase |-> "for", node |-> 0, st |-> InitialColoring(Analyser)]
    /\ UNCHANGED fold_vars

\* lines 72-79: one iteration of the outer for loop, up to stack.push(node)
detect_for ==
    /\ walk.phase = "for"
    /\ walk.node < Len(Context(Analyser).is_node_const)
    /\ LET cx == Context(Analyser)
           node == walk.node
       IN walk' =
            IF ~cx.is_node_const[node + 1] THEN [walk EXCEPT !.node = node + 1]
            ELSE IF node >= Len(walk.st.is_node_colored)
                 THEN [walk EXCEPT !.phase = "panic", !.st = Panic(@)]
            ELSE IF walk.st.is_node_colored[node + 1] THEN [walk EXCEPT !.node = node + 1]
            ELSE [walk EXCEPT !.phase = "while", !.st = start_component(@, node)]
    /\ UNCHANGED fold_vars

\* lines 81-100: one iteration of the while loop
detect_pop ==
    /\ walk.phase = "while"
    /\ walk.st.stack # <<>>
    /\ LET st1 == pop_step(Context(Analyser), walk.st)
       IN walk' = [walk EXCEPT !.st = st1,
                               !.phase = IF st1.panic THEN "panic" ELSE "while"]
    /\ UNCHANGED fold_vars

\* lines 81, 103: the stack is empty, the component is pushed
detect_emit ==
    /\ walk.phase = "while"
    /\ walk.st.stack = <<>>
    /\ walk' = [walk EXCEPT !.phase = "for", !.node = @ + 1, !.st = emit_component(@)]
    /\ UNCHANGED fold_vars

\* line 107: Ok(components)
detect_return ==
    /\ walk.phase = "for"
    /\ walk.node >= Len(Context(Analyser).is_node_const)
    /\ walk' = [walk EXCEPT !.phase = "done"]
    /\ UNCHANGED fold_vars

NextDetect ==
    \/ detect_call
    \/ detect_for
    \/ detect_pop
    \/ detect_emit
    \/ detect_return

\* detect looks at a Fact only through is_concrete: one tensor stands for
\* the concrete Facts
InitDetect ==
    \E n \in 1..MaxNodes, m \in 0..MaxEdges :
        \E es \in EdgeSeqs(n, m) :
            /\ \A k \in 1..m : es[k].fact \in {None, Some([dt |-> I32, v |-> 7])}
            /\ InitOn(Build(n, es))

\* the call runs on: a loop that can take a step takes it
SpecDetect == InitDetect /\ [][NextDetect]_vars /\ WF_vars(NextDetect)

Next ==
    \/ propagate_constants_begin
    \/ propagate_constants_edge
    \/ propagate_constants_end

Spec == Init /\ [][Next]_vars

\* fold called on a graph that violates the invariants it relies on
SpecRaw == InitRaw /\ [][Next]_vars

\* fold called on well-formed graphs with several outlets per node
SpecSlots == InitSlots /\ [][Next]_vars

-----------------------------------------------------------------------------
\* Vocabulary of the properties

Count(seq, x) == Cardinality({ k \in 1..Len(seq) : seq[k] = x })

RECURSIVE AllElements(_)
AllElements(comps) ==
    IF comps = <<>> THEN <<>> ELSE comps[1].elements \o AllElements(Tail(comps))

Boundary(comps) == { AllOutputs(comps)[k] : k \in 1..Len(AllOutputs(comps)) }

NodeElems(comp) == { x.id : x \in { comp.elements[k] : k \in 1..Len(comp.elements) } \cap
                                  [tag : {"Node"}, id : Nat] }

\* the brute-force classifier, read off the edges themselves
OutEdgesOf(an, n) ==
    { e \in 0..(Len(an.edges) - 1) :
        an.edges[e + 1].from # None /\ an.edges[e + 1].from[1].node = n }
EdgeConstant(an, e) == an.edges[e + 1].fact # None
NodeConstant(an, n) ==
    OutEdgesOf(an, n) # {} /\ \A e \in OutEdgesOf(an, n) : EdgeConstant(an, e)

\* every edge id is in the bucket of its source / destination, once, and in
\* no other bucket of that index
AdjacencyOk(an) ==
    \A e \in 1..Len(an.edges) :
        /\ an.edges[e].from # None =>
              /\ an.edges[e].from[1].node < Len(an.next_edges)
              /\ \A k \in 1..Len(an.next_edges) :
                    Count(an.next_edges[k], an.edges[e].id)
                        = IF k - 1 = an.edges[e].from[1].node THEN 1 ELSE 0
        /\ an.edges[e].to_node # None =>
              /\ an.edges[e].to_node[1] < Len(an.prev_edges)
              /\ \A k \in 1..Len(an.prev_edges) :
                    Count(an.prev_edges[k], an.edges[e].id)
                        = IF k - 1 = an.edges[e].to_node[1] THEN 1 ELSE 0

\* the last call returned Ok
FoldedOk == pc = "idle" /\ result = "ok"

-----------------------------------------------------------------------------
\* C1: a fold started right after a successful fold finds no boundary edge
\* and leaves the graph as it found it.
C1_SecondFoldChangesNothing ==
    (pc = "rewiring" /\ result = "ok") =>
        (AllOutputs(components) = <<>> /\ Analyser = pre)

\* C2: fold preserves the adjacency invariant: when it held before a
\* successful fold it holds after it.
C2_AdjacencyPreserved ==
    (FoldedOk /\ AdjacencyOk(pre)) => AdjacencyOk(Analyser)

\* C3: a node is a Node element of some detected component iff it has an
\* outgoing edge and all its outgoing edges carry a concrete Fact.
C3_NodeClassification ==
    (pc = "rewiring") =>
        \A n \in 0..(Len(pre.nodes) - 1) :
            (\E c \in 1..Len(components) : n \in NodeElems(components[c]))
                <=> NodeConstant(pre, n)

C3_Witness ==
    /\ pc = "rewiring"
    /\ \E n \in 0..(Len(pre.nodes) - 1) :
          /\ OutEdgesOf(pre, n) = {}
          /\ \A c \in 1..Len(components) : n \notin NodeElems(components[c])
    /\ \E n \in 0..(Len(pre.nodes) - 1), c \in 1..Len(components) :
          n \in NodeElems(components[c])
    /\ \E n \in 0..(Len(pre.nodes) - 1) :
          /\ \E e \in OutEdgesOf(pre, n) : EdgeConstant(pre, e)
          /\ \E e \in OutEdgesOf(pre, n) : ~EdgeConstant(pre, e)

\* C4: over all components of one detect call every node id is a Node
\* element at most once, every edge id an Edge element at most once and a
\* boundary edge at most once.
C4_Partition ==
    (pc = "rewiring") =>
        /\ \A n \in 0..(Len(pre.nodes) - 1) : Count(AllElements(components), ElementNode(n)) <= 1
        /\ \A e \in 0..(Len(pre.edges) - 1) :
              /\ Count(AllElements(components), ElementEdge(e)) <= 1
              /\ Count(AllOutputs(components), e) <= 1

\* two components, one of them with an edge between two of its nodes
C4_Witness ==
    /\ pc = "rewiring"
    /\ Len(components) >= 2
    /\ \E c \in 1..Len(components), e \in 0..(Len(pre.edges) - 1) :
          /\ Count(components[c].elements, ElementEdge(e)) = 1
          /\ pre.edges[e + 1].to_node # None
          /\ pre.edges[e + 1].to_node[1] # pre.edges[e + 1].from[1].node
          /\ {pre.edges[e + 1].to_node[1], pre.edges[e + 1].from[1].node}
                \subseteq NodeElems(components[c])

C6_NoTargetIsOutput ==
    (pc = "rewiring") =>
        \A c \in 1..Len(components) :
            \A e \in 0..(Len(pre.edges) - 1) :
                (/\ EdgeConstant(pre, e)
                 /\ pre.edges[e + 1].to_node = None
                 /\ pre.edges[e + 1].from # None
                 /\ pre.edges[e + 1].from[1].node \in NodeElems(components[c]))
                    => Count(components[c].outputs, e) = 1

\* the call has run to its end (reset_plan was requested)
Returned == pc = "idle" /\ folds >= 1

IsI32(e) == edges[e + 1].fact[1].dt = I32
Appended == (Len(pre.nodes) + 1)..Len(nodes)

\* C7: boundary edges of one call with the same i32 content read from the
\* same appended node, and one node is appended for that content.
C7_Int32Dedup ==
    Returned =>
        \A e1 \in Boundary(components), e2 \in Boundary(components) :
            (IsI32(e1) /\ IsI32(e2) /\ edges[e1 + 1].fact = edges[e2 + 1].fact) =>
                /\ edges[e1 + 1].from = edges[e2 + 1].from
                /\ edges[e1 + 1].from[1].node >= Len(pre.nodes)
                /\ Cardinality({ k \in Appended : nodes[k].op = edges[e1 + 1].fact }) = 1

\* two boundary edges of different components with the same i32 content
C7_Witness ==
    /\ Returned
    /\ \E c1 \in 1..Len(components), c2 \in 1..Len(components) :
          /\ c1 # c2
          /\ \E k1 \in 1..Len(components[c1].outputs), k2 \in 1..Len(components[c2].outputs) :
                LET e1 == components[c1].outputs[k1]
                    e2 == components[c2].outputs[k2]
                IN IsI32(e1) /\ IsI32(e2) /\ edges[e1 + 1].fact = edges[e2 + 1].fact

\* C8: a boundary edge with a non-i32 tensor reads from an appended node no
\* other boundary edge reads from, and the call appends one node per non-i32
\* boundary edge plus one per distinct i32 content.
C8_NoDedupOutsideInt32 ==
    Returned =>
        /\ \A e1 \in Boundary(components) :
              ~IsI32(e1) =>
                 /\ edges[e1 + 1].from[1].node >= Len(pre.nodes)
                 /\ \A e2 \in Boundary(components) \ {e1} :
                       edges[e2 + 1].from # edges[e1 + 1].from
        /\ Len(nodes) - Len(pre.nodes)
              = Cardinality({ e \in Boundary(components) : ~IsI32(e) })
                + Cardinality({ edges[e + 1].fact[1].v : e \in { x \in Boundary(components) : IsI32(x) } })

\* two boundary edges with the same non-i32 content, beside two i32 edges
\* that share a node
C8_Witness ==
    /\ Returned
    /\ \E e1 \in Boundary(components), e2 \in Boundary(components) :
          /\ e1 # e2
          /\ ~IsI32(e1) /\ ~IsI32(e2)
          /\ edges[e1 + 1].fact = edges[e2 + 1].fact
    /\ \E e \in Boundary(components) : IsI32(e)

\* C9: a fold that hits an invariant violation at a boundary edge leaves
\* the graph exactly as it was before the call.
C9_FailedFoldNotApplied ==
    (pc = "panicked") => (Analyser = pre)

\* C10: the frame of fold, against the graph the call began on: nodes and
\* edges are kept, only boundary edges change source, only their
\* destinations change inputs, and an outgoing bucket of an old node only
\* loses the boundary edges that were rewired.
Rewired(e) == edges[e + 1].from # pre.edges[e + 1].from
C10_Frame ==
    (folds >= 1) =>
        /\ Len(nodes) >= Len(pre.nodes)
        /\ \A k \in 1..Len(pre.nodes) :
              /\ nodes[k].id = pre.nodes[k].id
              /\ nodes[k].name = pre.nodes[k].name
              /\ nodes[k].op_name = pre.nodes[k].op_name
              /\ nodes[k].op = pre.nodes[k].op
              /\ nodes[k].inputs # pre.nodes[k].inputs =>
                    \E e \in Boundary(components) : pre.edges[e + 1].to_node = Some(k - 1)
              /\ next_edges[k] = SelectSeq(pre.next_edges[k],
                                           LAMBDA e : ~(e \in Boundary(components) /\ Rewired(e)))
        /\ Len(edges) = Len(pre.edges)
        /\ \A e \in 0..(Len(pre.edges) - 1) :
              /\ edges[e + 1].id = pre.edges[e + 1].id
              /\ edges[e + 1].to_node = pre.edges[e + 1].to_node
              /\ edges[e + 1].fact = pre.edges[e + 1].fact
              /\ Rewired(e) => e \in Boundary(components)

\* a call that returned having rewired an edge of a node that keeps another
\* outgoing edge
C10_Witness ==
    /\ Returned
    /\ \E k \in 1..Len(pre.nodes) :
          /\ next_edges[k] # pre.next_edges[k]
          /\ next_edges[k] # <<>>
    /\ \E k \in 1..Len(pre.nodes) : nodes[k].inputs # pre.nodes[k].inputs

\* C11: ids are dense and stable: the node at position k has id k (so no
\* two nodes share an id and an appended node got the node count of the
\* moment it was appended), the old nodes keep their ids, and the node and
\* edge counts of a call never fall below those it began with.
C11_DenseStableIds ==
    /\ \A k \in 1..Len(nodes) : nodes[k].id = k - 1
    /\ \A k \in 1..Len(edges) : edges[k].id = k - 1
    /\ Len(nodes) >= Len(pre.nodes)
    /\ Len(edges) >= Len(pre.edges)
    /\ \A k \in 1..Len(pre.nodes) : nodes[k].id = pre.nodes[k].id

\* the second of two calls has returned and appended two nodes, after the
\* first call had appended one
C11_Witness ==
    /\ pc = "idle"
    /\ folds = 2
    /\ Len(nodes) >= Len(pre.nodes) + 2
    /\ \E k \in 1..Len(pre.nodes) : pre.nodes[k].op_name = "Const"

\* C12: reset_plan is requested once per call that runs to its end, after
\* the last boundary edge has been rewired and never while edges are being
\* rewired, also when no component was detected; the call reports success
\* only when that request succeeded.
C12_ResetPlanLast ==
    /\ pc = "rewiring" => plan_resets = folds - 1
    /\ pc = "panicked" => plan_resets = folds - 1
    /\ pc = "idle" =>
          /\ plan_resets = folds
          /\ folds >= 1 => \A e \in Boundary(components) : Rewired(e)
    /\ result = "ok" => plan_reset_ok = "ok"
    /\ result = "err" => plan_reset_ok = "err"

\* a successful call that rewired boundary edges of two components
C12_Witness ==
    /\ pc = "idle"
    /\ result = "ok"
    /\ plan_resets = 1
    /\ Len(components) >= 2
    /\ components[1].outputs # <<>>
    /\ components[2].outputs # <<>>

\* C13: detect returns a component set without failing on every graph the
\* program can be in between calls, the graph left by a returned fold
\* included.
C13_DetectTotal ==
    pc = "idle" => ~connected_components(Analyser).panic

\* the ways of naming three ids 0..2
Perm3 == { p \in [1..3 -> 0..2] : \A i \in 1..3, j \in 1..3 : p[i] = p[j] => i = j }

\* Scenario A: A has no inputs and one outlet feeding B (edge ab) and C
\* (edge ac) with one i32 tensor; B is constant through its one concrete
\* output edge bo, which has no destination; C has no constant output.
ScenarioA(an, A, B, C, ab, ac, bo) ==
    /\ Len(an.nodes) = 3 /\ Len(an.edges) = 3
    /\ an.nodes[A + 1].inputs = <<>>
    /\ an.edges[ab + 1].from = Some(OutletIdNew(A, 0))
    /\ an.edges[ab + 1].to_node = Some(B)
    /\ an.edges[ac + 1].from = Some(OutletIdNew(A, 0))
    /\ an.edges[ac + 1].to_node = Some(C)
    /\ an.edges[bo + 1].from = Some(OutletIdNew(B, 0))
    /\ an.edges[bo + 1].to_node = None
    /\ \A e \in 1..3 : an.edges[e].fact # None
    /\ an.edges[ab + 1].fact = an.edges[ac + 1].fact
    /\ an.edges[ac + 1].fact[1].dt = I32

ElementsOf(comp) == { comp.elements[k] : k \in 1..Len(comp.elements) }

\* what fold leaves of Scenario A: D appended, C reads D, the rest as before
ScenarioAFolded(A, B, C, ab, ac) ==
    /\ Len(nodes) = 4
    /\ nodes[4] = build_const_node(3, generated(3), pre.edges[ac + 1].fact[1])
    /\ nodes[C + 1].inputs = <<OutletIdNew(3, 0)>>
    /\ edges[ac + 1].from = Some(OutletIdNew(3, 0))
    /\ edges[ac + 1].to_node = Some(C)
    /\ nodes[A + 1] = pre.nodes[A + 1]
    /\ nodes[B + 1] = pre.nodes[B + 1]
    /\ edges[ab + 1] = pre.edges[ab + 1]

OutletFact(an, outlet) ==
    LET leaving == { e \in 1..Len(an.edges) : an.edges[e].from = Some(outlet) }
    IN IF leaving = {} THEN None ELSE an.edges[CHOOSE e \in leaving : TRUE].fact

\* what an outlet of the graph after the call carries: the tensor of an
\* appended Const node, and what it carried before for an old node
OutletValue(outlet) ==
    IF outlet.node >= Len(pre.nodes) THEN nodes[outlet.node + 1].op
    ELSE OutletFact(pre, outlet)

\* C15: after a successful call every input position of every node reads an
\* outlet that carries what the outlet it referenced before the call
\* carried.
C15_InputValuePreserved ==
    (pc = "idle" /\ result = "ok" /\ folds = 1) =>
        \A n \in 1..Len(pre.nodes) :
            /\ Len(nodes[n].inputs) = Len(pre.nodes[n].inputs)
            /\ \A k \in 1..Len(pre.nodes[n].inputs) :
                  OutletValue(nodes[n].inputs[k]) = OutletFact(pre, pre.nodes[n].inputs[k])

\* the undirected graph induced by the constant nodes and constant edges
ConstNodes(an) == { n \in 0..(Len(an.nodes) - 1) : NodeConstant(an, n) }
Linked(an, u, v) ==
    \E e \in 1..Len(an.edges) :
        /\ an.edges[e].fact # None
        /\ an.edges[e].from # None /\ an.edges[e].to_node # None
        /\ {an.edges[e].from[1].node, an.edges[e].to_node[1]} = {u, v}

RECURSIVE Reach(_, _)
Reach(an, S) ==
    LET S2 == S \cup { v \in ConstNodes(an) : \E u \in S : Linked(an, u, v) }
    IN IF S2 = S THEN S ELSE Reach(an, S2)

\* C16: the node sets of the components detect returns are the connected
\* components of the undirected graph induced by the constant nodes and the
\* constant edges, each returned once.
C16_MaximalConnected ==
    pc = "rewiring" =>
        /\ { NodeElems(components[k]) : k \in 1..Len(components) }
              = { Reach(pre, {n}) : n \in ConstNodes(pre) }
        /\ \A j \in 1..Len(components), k \in 1..Len(components) :
              NodeElems(components[j]) = NodeElems(components[k]) => j = k
        /\ \A u \in ConstNodes(pre), v \in ConstNodes(pre) :
              Linked(pre, u, v) =>
                  \E k \in 1..Len(components) : {u, v} \subseteq NodeElems(components[k])

\* two components, one of them holding a producer with a higher id than its
\* consumer, reached from the consumer through the incoming scan
C16_Witness ==
    /\ pc = "rewiring"
    /\ Len(components) >= 2
    /\ \E e \in 1..Len(pre.edges), k \in 1..Len(components) :
          /\ pre.edges[e].to_node # None
          /\ pre.edges[e].from[1].node > pre.edges[e].to_node[1]
          /\ {pre.edges[e].from[1].node, pre.edges[e].to_node[1]} \subseteq NodeElems(components[k])

\* C17: after the call every boundary edge reads from slot 0 of a node the
\* call appended, which is a Const node without inputs, named from its own
\* id, holding the tensor of the edge's Fact.
C17_RewiredReadsConstant ==
    Returned =>
        \A e \in Boundary(components) :
            /\ edges[e + 1].from # None
            /\ edges[e + 1].fact = pre.edges[e + 1].fact
            /\ LET outlet == edges[e + 1].from[1]
                   d      == outlet.node
               IN /\ outlet.slot = 0
                  /\ d >= Len(pre.nodes) /\ d < Len(nodes)
                  /\ nodes[d + 1] = build_const_node(d, generated(d), edges[e + 1].fact[1])
                  /\ nodes[d + 1].op_name = "Const"
                  /\ nodes[d + 1].inputs = <<>>
                  /\ nodes[d + 1].op = edges[e + 1].fact

\* a call that took a node from the cache for one boundary edge while the
\* cache held a node for another i32 content as well
C17_Witness ==
    /\ Returned
    /\ Cardinality(const_int_nodes) = 2
    /\ \E e1 \in Boundary(components), e2 \in Boundary(components) :
          e1 # e2 /\ edges[e1 + 1].from = edges[e2 + 1].from

\* everything the walk has recorded so far
WalkElements == AllElements(walk.st.components) \o walk.st.component.elements

\* each node and each edge is marked once at most, and recorded when marked
MarkedOnce ==
    /\ \A n \in 1..Len(walk.st.is_node_colored) :
          Count(WalkElements, ElementNode(n - 1))
              = IF walk.st.is_node_colored[n] THEN 1 ELSE 0
    /\ \A e \in 1..Len(walk.st.is_edge_colored) :
          Count(WalkElements, ElementEdge(e - 1))
              = IF walk.st.is_edge_colored[e] THEN 1 ELSE 0

\* the walk ends with what connected_components returns
WalkReturns ==
    walk.phase = "done" =>
        /\ walk.st.stack = <<>>
        /\ walk.st.components = connected_components(Analyser).components

\* C18: detect terminates: the call returns, the stack being empty; on the
\* way each node and each edge is marked at most once, so that a node pushed
\* again is skipped when popped.
C18_DetectTerminates ==
    /\ <>(walk.phase = "done")
    /\ [](MarkedOnce /\ WalkReturns /\ walk.phase # "panic")

\* a node that is marked already waits on the stack, in a graph with a
\* self-loop, and a node is on the stack twice, in a graph with parallel edges
C18_Witness ==
    /\ walk.phase = "while"
    /\ \E k \in 1..Len(walk.st.stack) : walk.st.is_node_colored[walk.st.stack[k] + 1]
    /\ \E j \in 1..Len(walk.st.stack), k \in 1..Len(walk.st.stack) :
          j # k /\ walk.st.stack[j] = walk.st.stack[k]

\* the graph invariants fold relies on: one bucket per node, every edge in
\* the buckets of its endpoints, and in each node's input list one entry per
\* incoming edge naming that edge's source
WellFormed(an) ==
    /\ Len(an.prev_edges) = Len(an.nodes)
    /\ Len(an.next_edges) = Len(an.nodes)
    /\ \A e \in 1..Len(an.edges) :
          /\ an.edges[e].from # None /\ an.edges[e].from[1].node < Len(an.nodes)
          /\ an.edges[e].to_node # None => an.edges[e].to_node[1] < Len(an.nodes)
    /\ AdjacencyOk(an)
    /\ \A n \in 1..Len(an.nodes) :
          /\ Len(an.nodes[n].inputs) = Len(an.prev_edges[n])
          /\ \A e \in 1..Len(an.edges) :
                an.edges[e].to_node = Some(n - 1) =>
                    Count(an.nodes[n].inputs, an.edges[e].from[1])
                        = Cardinality({ x \in 1..Len(an.edges) :
                                          /\ an.edges[x].to_node = Some(n - 1)
                                          /\ an.edges[x].from = an.edges[e].from })

\* the unwraps of lines 179-197 succeed for the boundary edge i
Rewirable(i) ==
    LET edge == edges[i + 1]
    IN /\ edge.from # None
       /\ edge.to_node # None
       /\ edge.from[1].node < Len(next_edges)
       /\ position_of_edge(next_edges[edge.from[1].node + 1], edge.id) # None
       /\ edge.to_node[1] < Len(nodes)
       /\ position_of_source(nodes[edge.to_node[1] + 1].inputs, edge.from[1].node) # None

\* C19: a call on a well-formed graph hits no invariant violation: detect
\* returns, no rewiring step fails, and the boundary edge about to be
\* rewired has a source and a destination, is in its source's outgoing
\* bucket, and its destination still has an input naming that source.
C19_NoInvariantViolation ==
    (folds >= 1 /\ WellFormed(pre)) =>
        /\ pc # "panicked"
        /\ pc = "rewiring" => \A k \in 1..Len(pending) : pre.edges[pending[k] + 1].to_node # None
        /\ (pc = "rewiring" /\ pending # <<>>) => Rewirable(Head(pending))

\* a call has returned that rewired two boundary edges leading from one
\* source node to one destination
C19_Witness ==
    /\ pc = "idle" /\ folds = 1 /\ result = "ok"
    /\ WellFormed(pre)
    /\ \E e1 \in Boundary(components), e2 \in Boundary(components) :
          /\ e1 # e2
          /\ pre.edges[e1 + 1].from[1].node = pre.edges[e2 + 1].from[1].node
          /\ pre.edges[e1 + 1].to_node = pre.edges[e2 + 1].to_node

\* C20: after every rewiring step and after the call, each adjacency index
\* holds one bucket per node, and every edge rewired by the call sits in the
\* outgoing bucket at the index of the node it now reads from.
C20_BucketsAligned ==
    (folds >= 1 /\ WellFormed(pre) /\ pc \in {"rewiring", "idle"}) =>
        /\ Len(prev_edges) = Len(nodes)
        /\ Len(next_edges) = Len(nodes)
        /\ \A e \in Boundary(components) :
              Rewired(e) =>
                 /\ edges[e + 1].from[1].node < Len(next_edges)
                 /\ Count(next_edges[edges[e + 1].from[1].node + 1], e) = 1

=============================================================================
